---- MODULE Spec2Model ----
(***************************************************************************)
(* State-machine model of the PhoneVR ALVR client core (alvr_main.cpp):    *)
(* barometric altitude estimation, pose fusion (getPose), per-eye view     *)
(* configuration (updateViewConfigs), the tracking dispatcher thread       *)
(* (inputThread) and the lobby/streaming session handling of renderNative. *)
(*                                                                         *)
(* Number representation.                                                  *)
(*  - lengths (positions, eye offsets, altitudes) are integers in          *)
(*    millimetres: 0.03 m = 30, FLOOR_HEIGHT 1.5 m = 1500;                 *)
(*  - pressures are integers in hundredths of hPa: 1013.25 hPa = 101325;   *)
(*  - quaternions are <<x, y, z, w>> with integer components counted in    *)
(*    halves, so the 24 Hurwitz unit quaternions are                       *)
(*    exact: identity = <<0,0,0,2>>, 120 degrees about (1,1,1) =           *)
(*    <<1,1,1,1>>.  The all-zero quaternion of NativeContext's default     *)
(*    initialiser is <<0,0,0,0>>;                                          *)
(*  - time is an integer number of nanoseconds.                            *)
(***************************************************************************)
EXTENDS Integers, Sequences, FiniteSets, TLC

(***************************************************************************)
(* Program constants                                                       *)
(***************************************************************************)
\* const float FLOOR_HEIGHT = 1.5 (metres), in millimetres
FLOOR_HEIGHT == 1500

\* float SEA_LEVEL_PRESSURE = 1013.25f (hPa), in hundredths of hPa
SEA_LEVEL_PRESSURE == 101325

\* 44330.0f (metres) of pressureToAltitude, in millimetres
AltitudeScale == 44330000

\* (uint64_t) (1e9 / 60.f / 3): the dispatcher's interval in nanoseconds
DispatchInterval == 5555555

(***************************************************************************)
(* Bounds of the model                                                     *)
(***************************************************************************)
\* longest batch of sensor events drained by one onSensorChanged callback
MaxBatch == 2

\* texture names the GL context hands out (a leak stops the model there)
MaxTextures == 6

\* geometry-changed calls counted between two render ticks
MaxTriggers == 2

\* dispatch iterations followed per dispatcher thread, in the session
\* specification and in the dispatcher's own
MaxIter == 1

MaxDispatchIter == 101

(***************************************************************************)
(* Vector and quaternion helpers                                           *)
(***************************************************************************)
ZeroVec == <<0, 0, 0>>

ZeroQuat == <<0, 0, 0, 0>>

IdentityQuat == <<0, 0, 0, 2>>

\* AlvrPose pose = {}
ZeroPose == [orientation |-> ZeroQuat, position |-> ZeroVec]

\* AlvrQuat inverseQuat(AlvrQuat q) { return {-q.x, -q.y, -q.z, q.w}; }
inverseQuat(q) == <<0 - q[1], 0 - q[2], 0 - q[3], q[4]>>

\* void cross(float a[3], float b[3], float out[3])
cross(a, b) ==
    << a[2] * b[3] - a[3] * b[2],
       a[3] * b[1] - a[1] * b[3],
       a[1] * b[2] - a[2] * b[1] >>

\* void quatVecMultiply(AlvrQuat q, float v[3], float out[3]):
\*   out[i] = v[i] + 2 * (q.w * rv[i] + rrv[i]),  r = (q.x, q.y, q.z),
\*   rv = r x v, rrv = r x rv.
\* With components in halves, r = R/2 and w = W/2, so
\*   2 * (w * rv + rrv) = (W * (R x v) + R x (R x v)) / 2.
quatVecMultiply(q, v) ==
    LET r   == <<q[1], q[2], q[3]>>
        rv  == cross(r, v)
        rrv == cross(r, rv)
    IN  [i \in 1..3 |-> v[i] + (q[4] * rv[i] + rrv[i]) \div 2]

(***************************************************************************)
(* Barometric altitude                                                     *)
(***************************************************************************)
\* The pressures the barometer reports in the model (hundredths of hPa).
PressureSamples == {101325, 101000, 100500}

\* float pressureToAltitude(float p0, float p):
\*   44330.0f * (1.0f - (float) pow(p / p0, 1.0f / 5.255f))
\* The power is not an integer operation; its value at the sea-level
\* reference p0 = 1013.25 is tabulated for the pressures of the model, as the
\* code computes it in float arithmetic, rounded to the millimetre:
\*   p = p0      ->      0.0        (p / p0 = 1 and pow(1, c) = 1 exactly)
\*   p = 1010.0  ->     27.093876 m
\*   p = 1005.0  ->     68.913147 m
\*   p = 0       ->  44330.0 m      (pow(0, c) = 0)
pressureToAltitude(p0, p) ==
    CASE p = p0 -> 0
      [] p # p0 /\ p = 0 -> AltitudeScale
      [] p0 = SEA_LEVEL_PRESSURE /\ p = 101000 -> 27094
      [] p0 = SEA_LEVEL_PRESSURE /\ p = 100500 -> 68913

(***************************************************************************)
(* State                                                                   *)
(***************************************************************************)
VARIABLES
    \* build-time switches (globals of the translation unit)
    useARCoreOrientation,          \* bool useARCoreOrientation = false
    useBarometerAltitudeTracking,  \* bool useBarometerAltitudeTracking = true
    \* NativeContext CTX
    initialized,        \* initializeNative has run
    arcoreEnabled,      \* CTX.arcoreEnabled
    arSession,          \* CTX.arSession != nullptr
    arFrame,            \* CTX.arFrame != nullptr
    sensorEventQueue,   \* pressure sensor enabled on CTX.sensorEventQueue
    lastOrientation,    \* CTX.lastOrientation
    lastPosition,       \* CTX.lastPosition
    floorAltitude,      \* CTX.floorAltitude
    currentPressure,    \* CTX.currentPressure
    \* the process
    crashed,            \* an exception left a thread uncaught: std::terminate
    \* history of the calls made so far (not program state)
    call,               \* the most recent getPose call: inputs, caches before, result
    lastOk,             \* the most recent getPose call that read the camera successfully
    firstSample,        \* first pressure sample since the sensor was enabled (0: none)
    lastSample,         \* latest pressure sample (0: none)
    \* the host and the collaborators
    deviceParams,       \* viewer calibration saved by the Cardboard SDK ("none": absent)
    glContext,          \* the GL thread has a surface and a current context
    \* NativeContext CTX, session part
    running,            \* CTX.running
    screenWidth,        \* CTX.screenWidth
    screenHeight,       \* CTX.screenHeight
    screenRotation,     \* CTX.screenRotation
    renderingParamsChanged,  \* CTX.renderingParamsChanged
    glContextRecreated, \* CTX.glContextRecreated
    lensDistortion,     \* CTX.lensDistortion: the viewer and screen it was made for
    distortionRenderer, \* CTX.distortionRenderer != nullptr
    eyeOffsets,         \* CTX.eyeOffsets
    fovArr,             \* CTX.fovArr
    streaming,          \* CTX.streaming
    lobbyTextures,      \* CTX.lobbyTextures
    streamTextures,     \* CTX.streamTextures
    arTexture,          \* CTX.arTexture
    glTextures,         \* texture objects of the GL thread's context, by name
    streamConfig,       \* AlvrStreamConfig given to alvr_start_stream_opengl
    viewParams,         \* CTX.viewParams
    deviceMotion,       \* CTX.deviceMotion
    lobbyViews,         \* AlvrViewInput[2] given to alvr_render_lobby_opengl
    \* the render tick (renderNative on the GL thread)
    rpc,                \* "idle": not in renderNative; "poll": in the event loop;
                        \* "join": inside CTX.inputThread.join()
    tick,               \* what the current (or latest) render tick found and did
    pending,            \* geometry-changed calls since the flag was last consumed
    lastEvent,          \* the transport event the render tick handled last
    \* the dispatcher (CTX.inputThread)
    tpc,                \* "none": no thread; "start", "loop", "body", "sleep":
                        \* position in inputThread; "exited": returned, not joined
    threadEgl,          \* the thread made its own EGL context current
    now,                \* std::chrono::steady_clock
    deadline,           \* inputThread's deadline
    startTime,          \* the deadline's first value
    iter,               \* iterations of the loop that reached deadline +=
    overrun,            \* some iteration's body ended after its deadline
    wokeAt              \* when the latest sleep_until returned

ctxVars == <<useARCoreOrientation, useBarometerAltitudeTracking, initialized,
             arcoreEnabled, arSession, arFrame, sensorEventQueue>>

poseVars == <<lastOrientation, lastPosition>>

altVars == <<floorAltitude, currentPressure, firstSample, lastSample>>

histVars == <<call, lastOk>>

hostVars == <<deviceParams, glContext>>

sessVars == <<running, screenWidth, screenHeight, screenRotation,
              renderingParamsChanged, glContextRecreated, lensDistortion,
              distortionRenderer, eyeOffsets, fovArr, streaming>>

gfxVars == <<lobbyTextures, streamTextures, arTexture, glTextures, streamConfig>>

viewVars == <<viewParams, deviceMotion, lobbyViews>>

renderVars == <<rpc, tick, pending, lastEvent>>

threadVars == <<tpc, threadEgl, now, deadline, startTime, iter, overrun, wokeAt>>

sysVars == <<hostVars, sessVars, gfxVars, viewVars, renderVars, threadVars>>

vars == <<ctxVars, poseVars, altVars, histVars, crashed, sysVars>>

NoCall == [outcome |-> "none"]

\* AlvrFov fov = {}
ZeroFov == [viewer |-> "none", w |-> 0, h |-> 0, eye |-> 0]

\* AlvrViewParams viewParams[2] = {}
ZeroViews == [eye \in 1..2 |-> [pose |-> ZeroPose, fov |-> ZeroFov]]

NoTexture == [live |-> FALSE, w |-> 0, h |-> 0, use |-> "none"]

NoLens == [viewer |-> "none", w |-> 0, h |-> 0]

NoStream == [on |-> FALSE, w |-> 0, h |-> 0, foveation |-> FALSE,
             textures |-> <<0, 0>>]

NoTick == [dirty |-> FALSE, recreated |-> FALSE, calibrated |-> FALSE,
           pending |-> 0, lobbyAllocs |-> 0, lobbyReleases |-> 0,
           result |-> "none", rendered |-> "none", submitted |-> FALSE]

NoEvent == [tag |-> "none", w |-> 0, h |-> 0, settings |-> "none",
            wasStreaming |-> FALSE, allocated |-> {}, threadStarted |-> FALSE,
            result |-> "none"]

(***************************************************************************)
(* Construction: NativeContext CTX = {} and the globals' initialisers      *)
(***************************************************************************)
\* Everything but useARCoreOrientation, which is a global the program never
\* assigns: its initialiser is the build's choice of orientation source.
InitContext ==
    /\ useBarometerAltitudeTracking = TRUE
    /\ initialized = FALSE
    /\ arcoreEnabled = FALSE
    /\ arSession = FALSE
    /\ arFrame = FALSE
    /\ sensorEventQueue = FALSE
    /\ lastOrientation = ZeroQuat
    /\ lastPosition = ZeroVec
    /\ floorAltitude = 0
    /\ currentPressure = 0
    /\ crashed = FALSE
    /\ call = NoCall
    /\ lastOk = NoCall
    /\ firstSample = 0
    /\ lastSample = 0
    /\ deviceParams = "none"
    /\ glContext = FALSE
    /\ running = FALSE
    /\ screenWidth = 0
    /\ screenHeight = 0
    /\ screenRotation = 0
    /\ renderingParamsChanged = TRUE
    /\ glContextRecreated = FALSE
    /\ lensDistortion = NoLens
    /\ distortionRenderer = FALSE
    /\ eyeOffsets = <<0, 0>>
    /\ fovArr = <<ZeroFov, ZeroFov>>
    /\ streaming = FALSE
    /\ lobbyTextures = <<0, 0>>
    /\ streamTextures = <<0, 0>>
    /\ arTexture = 0
    /\ glTextures = [n \in 1..MaxTextures |-> NoTexture]
    /\ streamConfig = NoStream
    /\ viewParams = ZeroViews
    /\ deviceMotion = ZeroPose
    /\ lobbyViews = ZeroViews
    /\ rpc = "idle"
    /\ tick = NoTick
    /\ pending = 0
    /\ lastEvent = NoEvent
    /\ tpc = "none"
    /\ threadEgl = FALSE
    /\ now = 0
    /\ deadline = 0
    /\ startTime = 0
    /\ iter = 0
    /\ overrun = FALSE
    /\ wokeAt = 0

\* bool useARCoreOrientation = false
Init ==
    /\ useARCoreOrientation = FALSE
    /\ InitContext

(***************************************************************************)
(* initializeNative                                                        *)
(***************************************************************************)
\* enableARCore: the jboolean argument; arCreateOk, arConfigureOk: whether
\* ArSession_create / ArSession_configure return AR_SUCCESS; sensorOk: whether
\* the device has a pressure sensor and enabling it and setting its rate work.
\* Each early return of the handler skips everything below it, the barometer
\* set-up included.
initializeNative(enableARCore, arCreateOk, arConfigureOk, sensorOk) ==
    /\ ~crashed
    /\ ~initialized
    /\ initialized' = TRUE
    /\ arcoreEnabled' = (enableARCore /\ arCreateOk)
    /\ arSession' = (enableARCore /\ arCreateOk)
    /\ arFrame' = (enableARCore /\ arCreateOk /\ arConfigureOk)
    /\ sensorEventQueue' =
          /\ enableARCore => (arCreateOk /\ arConfigureOk)
          /\ useBarometerAltitudeTracking
          /\ sensorOk
    /\ UNCHANGED <<useARCoreOrientation, useBarometerAltitudeTracking>>
    /\ UNCHANGED <<poseVars, altVars, histVars, crashed, sysVars>>

(***************************************************************************)
(* Barometer callback: onSensorChanged                                     *)
(***************************************************************************)
\* Only the pressure sensor is enabled on the queue (initializeNative), so
\* the events it delivers are pressure events.
SensorEvents == [type : {"PRESSURE"}, pressure : PressureSamples]

\* The batches ASensorEventQueue_getEvents hands to one callback.
RECURSIVE SeqsUpTo(_, _)
SeqsUpTo(S, n) ==
    IF n = 0 THEN {<<>>}
    ELSE LET shorter == SeqsUpTo(S, n - 1)
         IN  shorter \cup {Append(q, e) : q \in shorter, e \in S}

SensorBatches == SeqsUpTo(SensorEvents, MaxBatch) \ {<<>>}

\* Variant of onSensorEvent: the calibrating sample is consumed by the
\* calibration and not stored as the current pressure.
onSensorEvent_CalibrationSkipsStore(st, event) ==
    IF event.type # "PRESSURE" THEN st
    ELSE IF st.floorAltitude = 0
        THEN [floorAltitude |->
                  pressureToAltitude(SEA_LEVEL_PRESSURE, event.pressure),
              currentPressure |-> st.currentPressure]
        ELSE [floorAltitude |-> st.floorAltitude,
              currentPressure |-> event.pressure]

\* One iteration of the while loop of onSensorChanged, on the altitude
\* calibration st = [floorAltitude, currentPressure].
onSensorEvent(st, event) ==
    IF event.type # "PRESSURE" THEN st
    ELSE [floorAltitude |->
              IF st.floorAltitude = 0
                  THEN pressureToAltitude(SEA_LEVEL_PRESSURE, event.pressure)
                  ELSE st.floorAltitude,
          currentPressure |-> event.pressure]

\* The while loop of onSensorChanged over the queued events.
RECURSIVE drainSensorEvents(_, _)
drainSensorEvents(st, events) ==
    IF events = <<>> THEN st
    ELSE drainSensorEvents(onSensorEvent(st, Head(events)), Tail(events))

\* The pressure values of a batch, in order.
RECURSIVE PressuresOf(_)
PressuresOf(events) ==
    IF events = <<>> THEN <<>>
    ELSE IF Head(events).type = "PRESSURE"
        THEN <<Head(events).pressure>> \o PressuresOf(Tail(events))
        ELSE PressuresOf(Tail(events))

onSensorChanged(events) ==
    /\ ~crashed
    /\ sensorEventQueue
    /\ LET st == drainSensorEvents(
                    [floorAltitude |-> floorAltitude,
                     currentPressure |-> currentPressure], events)
           ps == PressuresOf(events)
       IN  /\ floorAltitude' = st.floorAltitude
           /\ currentPressure' = st.currentPressure
           /\ firstSample' = IF firstSample = 0 /\ ps # <<>> THEN ps[1]
                             ELSE firstSample
           /\ lastSample' = IF ps # <<>> THEN ps[Len(ps)] ELSE lastSample
    /\ UNCHANGED <<ctxVars, poseVars, histVars, crashed, sysVars>>

\* float getAltitudeFromBarometer()
getAltitudeFromBarometer ==
    pressureToAltitude(SEA_LEVEL_PRESSURE, currentPressure) - floorAltitude

(***************************************************************************)
(* Pose fusion: getPose                                                    *)
(***************************************************************************)
\* What the head tracker predicts (CardboardHeadTracker_getPose).
HeadQuats == {<<0, 0, 0, 2>>, <<1, 1, 1, 1>>}

\* What the camera reports (ArPose_getPoseRaw): orientation and translation.
ArQuats == {<<0, 2, 0, 0>>}

ArPositions == {<<100, 1200, -300>>, <<-50, 1300, 40>>}

\* The collaborators' answers to one getPose call:
\*   hq       orientation from CardboardHeadTracker_getPose
\*   egl      eglGetCurrentContext() != EGL_NO_CONTEXT on the calling thread
\*   arRet    status of ArSession_update
\*   tracking ArCamera_getTrackingState
\*   arQ, arT the camera pose of ArPose_getPoseRaw
PoseInputs ==
    [hq : HeadQuats, egl : BOOLEAN, arRet : {"AR_SUCCESS", "AR_ERROR"},
     tracking : {"TRACKING", "PAUSED"}, arQ : ArQuats, arT : ArPositions]

\* ArSession_update is handed CTX.arFrame; on a null frame it answers
\* AR_ERROR_INVALID_ARGUMENT.
PoseInputOk(in) == ~arFrame => in.arRet = "AR_ERROR"

\* Lines 181-189: the head tracker is read unless the camera supplies the
\* orientation; the result is the pose's orientation so far and the
\* orientation cache.
\* A head tracker whose prediction is used as it is returned.
readHeadTracker_NotInverted(in) ==
    [orientation |-> in.hq, lastOrientation |-> in.hq, queried |-> TRUE]

readHeadTracker(in) ==
    IF ~arcoreEnabled \/ (arcoreEnabled /\ ~useARCoreOrientation)
        THEN [orientation |-> inverseQuat(in.hq),
              lastOrientation |-> inverseQuat(in.hq), queried |-> TRUE]
        ELSE [orientation |-> ZeroPose.orientation,
              lastOrientation |-> lastOrientation, queried |-> FALSE]

\* Lines 217-241: the camera is tracking; h is the result of readHeadTracker.
\* A camera read that hands out the cached position and keeps the cache.
readCamera_Stale(in, h) ==
    [outcome |-> "ok", camera |-> TRUE,
     pose |-> [orientation |-> IF useARCoreOrientation THEN in.arQ
                               ELSE h.orientation,
               position |-> lastPosition],
     lastOrientation |-> IF useARCoreOrientation THEN in.arQ
                         ELSE h.lastOrientation,
     lastPosition |-> lastPosition]

readCamera(in, h) ==
    [outcome |-> "ok", camera |-> TRUE,
     pose |-> [orientation |-> IF useARCoreOrientation THEN in.arQ
                               ELSE h.orientation,
               position |-> IF useBarometerAltitudeTracking
                                THEN <<in.arT[1], getAltitudeFromBarometer,
                                       in.arT[3]>>
                                ELSE in.arT],
     lastOrientation |-> IF useARCoreOrientation THEN in.arQ
                         ELSE h.lastOrientation,
     lastPosition |-> in.arT]

\* Variant of returnLastPosition: the zero-initialised position of `pose` is
\* returned instead of the cached one.
returnLastPosition_ZeroPosition(in, h) ==
    [outcome |-> "fallback", camera |-> TRUE,
     pose |-> [orientation |-> h.lastOrientation,
               position |-> ZeroPose.position],
     lastOrientation |-> h.lastOrientation,
     lastPosition |-> lastPosition]

\* Variant of returnLastPosition: the camera translation is cached before the
\* tracking state is examined.
returnLastPosition_CachesFirst(in, h) ==
    [outcome |-> "fallback", camera |-> TRUE,
     pose |-> [orientation |-> h.lastOrientation, position |-> lastPosition],
     lastOrientation |-> h.lastOrientation,
     lastPosition |-> in.arT]

\* Lines 198-215 and 244-250: ArSession_update failed or the camera is not
\* tracking (returnLastPosition); h is the result of readHeadTracker.
returnLastPosition(in, h) ==
    [outcome |-> "fallback", camera |-> TRUE,
     pose |-> [orientation |-> h.lastOrientation, position |-> lastPosition],
     lastOrientation |-> h.lastOrientation,
     lastPosition |-> lastPosition]

\* Variant of noEglContext: the statements after the throw are executed
\* instead of it (returnLastPosition = false; goto out).
noEglContext_Returns(in, h) ==
    [outcome |-> "ok", camera |-> TRUE,
     pose |-> [orientation |-> h.orientation, position |-> ZeroPose.position],
     lastOrientation |-> h.lastOrientation,
     lastPosition |-> lastPosition]

\* Lines 192-196: no EGL context is current; h is the result of
\* readHeadTracker.  The statements after the throw are never executed.
noEglContext(in, h) ==
    [outcome |-> "throw", camera |-> TRUE,
     pose |-> [orientation |-> h.orientation, position |-> ZeroPose.position],
     lastOrientation |-> h.lastOrientation,
     lastPosition |-> lastPosition]

\* AlvrPose getPose(uint64_t timestampNs): the value returned, the two caches
\* afterwards, and how the call ended:
\*   "ok"       ran to the end without returnLastPosition
\*   "fallback" returnLastPosition: ArSession_update failed or not tracking
\*   "throw"    std::runtime_error (no EGL context)
\* camera: the camera block was entered (CTX.arcoreEnabled && CTX.arSession).
getPose(in) ==
    LET h == readHeadTracker(in)
    IN  IF ~(arcoreEnabled /\ arSession)
            THEN [outcome |-> "ok", camera |-> FALSE,
                  pose |-> [orientation |-> h.orientation,
                            position |-> ZeroPose.position],
                  lastOrientation |-> h.lastOrientation,
                  lastPosition |-> lastPosition]
        ELSE IF ~in.egl THEN noEglContext(in, h)
        ELSE IF in.arRet # "AR_SUCCESS" THEN returnLastPosition(in, h)
        ELSE IF in.tracking # "TRACKING" THEN returnLastPosition(in, h)
        ELSE readCamera(in, h)

\* A caller (the render tick in the lobby, or a dispatch tick) calls getPose.
\* An exception leaving getPose is caught by neither caller.
CallGetPose(in) ==
    /\ ~crashed
    /\ initialized
    /\ PoseInputOk(in)
    /\ LET r == getPose(in)
       IN  /\ lastOrientation' = r.lastOrientation
           /\ lastPosition' = r.lastPosition
           /\ crashed' = (r.outcome = "throw")
           /\ call' = [outcome |-> r.outcome, camera |-> r.camera,
                       in |-> in, pose |-> r.pose,
                       headQueried |-> readHeadTracker(in).queried,
                       after |-> call.outcome,
                       pre |-> [lastOrientation |-> lastOrientation,
                                lastPosition |-> lastPosition,
                                floorAltitude |-> floorAltitude,
                                currentPressure |-> currentPressure]]
           /\ lastOk' = IF r.outcome = "ok" /\ r.camera
                            THEN [outcome |-> "ok", arT |-> in.arT,
                                  arQ |-> in.arQ, pose |-> r.pose]
                            ELSE lastOk
    /\ UNCHANGED <<ctxVars, altVars, sysVars>>

(***************************************************************************)
(* Per-eye view configuration: updateViewConfigs                           *)
(***************************************************************************)
\* Variant of offsetPosWithQuat that subtracts the offset without rotating it.
offsetPosWithQuat_Unrotated(q, offset, outPos) ==
    << outPos[1] - offset[1],
       outPos[2] - (offset[2] - FLOOR_HEIGHT),
       outPos[3] - offset[3] >>

\* void offsetPosWithQuat(AlvrQuat q, float offset[3], float outPos[3]):
\*   outPos[0] -= rotatedOffset[0];
\*   outPos[1] -= rotatedOffset[1] - FLOOR_HEIGHT;
\*   outPos[2] -= rotatedOffset[2];
offsetPosWithQuat(q, offset, outPos) ==
    LET rotatedOffset == quatVecMultiply(q, offset)
    IN  << outPos[1] - rotatedOffset[1],
           outPos[2] - (rotatedOffset[2] - FLOOR_HEIGHT),
           outPos[3] - rotatedOffset[3] >>

\* Lines 264-273: CTX.viewParams[eye] for one eye, from the head pose.
eyeViewParams(headPose, eye) ==
    LET headToEye == <<eyeOffsets[eye], 0, 0>>
    IN  [pose |-> [orientation |-> headPose.orientation,
                   position |-> offsetPosWithQuat(headPose.orientation,
                                                  headToEye, headPose.position)],
         fov |-> fovArr[eye]]

\* void updateViewConfigs(uint64_t targetTimestampNs): the result of the
\* getPose call it makes, CTX.deviceMotion.pose and CTX.viewParams (1 = kLeft,
\* 2 = kRight).
updateViewConfigs(in) ==
    LET r == getPose(in)
    IN  [r |-> r,
         deviceMotion |-> r.pose,
         viewParams |-> [eye \in 1..2 |-> eyeViewParams(r.pose, eye)]]

(***************************************************************************)
(* The host's entry points other than renderNative                         *)
(***************************************************************************)
\* Screen sizes and rotations the host reports.
ScreenSizes == {<<2400, 1080>>}

Rotations == {0}

\* Viewer profiles the Cardboard SDK can have saved (QR code scans).
Viewers == {"cardboardV1", "cardboardV2"}

SessionViewers == {"cardboardV1"}

\* CardboardLensDistortion_getEyeFromHeadMatrix(...)[12] for the two eyes: half
\* the viewer's inter-lens distance (60 mm and 64 mm).
eyeFromHeadX(lens) ==
    IF lens.viewer = "cardboardV1" THEN <<30, -30>> ELSE <<32, -32>>

\* AlvrFov getFov(CardboardEye eye): the field of view of the lens
\* CTX.lensDistortion holds at the call, kept as the lens and eye it belongs to.
getFov(lens, eye) ==
    [viewer |-> lens.viewer, w |-> lens.w, h |-> lens.h, eye |-> eye]

\* The Cardboard SDK saves the parameters of a scanned viewer
\* (CardboardQrCode_scanQrCodeAndSaveDeviceParams, asynchronously).
saveDeviceParams(viewer) ==
    /\ ~crashed
    /\ deviceParams' = viewer
    /\ UNCHANGED glContext
    /\ UNCHANGED <<ctxVars, poseVars, altVars, histVars, crashed, sessVars,
                   gfxVars, viewVars, renderVars, threadVars>>

resumeNative ==
    /\ ~crashed
    /\ initialized
    /\ renderingParamsChanged' = TRUE
    /\ running' = TRUE
    /\ UNCHANGED <<screenWidth, screenHeight, screenRotation,
                   glContextRecreated, lensDistortion, distortionRenderer,
                   eyeOffsets, fovArr, streaming>>
    /\ UNCHANGED <<ctxVars, poseVars, altVars, histVars, crashed, hostVars,
                   gfxVars, viewVars, renderVars, threadVars>>

pauseNative ==
    /\ ~crashed
    /\ initialized
    /\ running' = FALSE
    /\ UNCHANGED <<screenWidth, screenHeight, screenRotation,
                   renderingParamsChanged, glContextRecreated, lensDistortion,
                   distortionRenderer, eyeOffsets, fovArr, streaming>>
    /\ UNCHANGED <<ctxVars, poseVars, altVars, histVars, crashed, hostVars,
                   gfxVars, viewVars, renderVars, threadVars>>

\* The three entry points below are the GL thread's surface callbacks; they
\* run between render ticks.  A new surface comes with a new GL context, in
\* which none of the old texture objects exists.
surfaceCreatedNative ==
    /\ ~crashed
    /\ initialized
    /\ rpc = "idle"
    /\ glContextRecreated' = TRUE
    /\ glContext' = TRUE
    /\ glTextures' = [n \in 1..MaxTextures |-> NoTexture]
    /\ UNCHANGED deviceParams
    /\ UNCHANGED <<running, screenWidth, screenHeight, screenRotation,
                   renderingParamsChanged, lensDistortion, distortionRenderer,
                   eyeOffsets, fovArr, streaming>>
    /\ UNCHANGED <<lobbyTextures, streamTextures, arTexture, streamConfig>>
    /\ UNCHANGED <<ctxVars, poseVars, altVars, histVars, crashed, viewVars,
                   renderVars, threadVars>>

\* One more geometry-changed call since the flag was last consumed.
countTrigger == IF pending < MaxTriggers THEN pending + 1 ELSE pending

setScreenResolutionNative(width, height) ==
    /\ ~crashed
    /\ initialized
    /\ rpc = "idle"
    /\ screenWidth' = width
    /\ screenHeight' = height
    /\ renderingParamsChanged' = TRUE
    /\ pending' = countTrigger
    /\ UNCHANGED <<running, screenRotation, glContextRecreated, lensDistortion,
                   distortionRenderer, eyeOffsets, fovArr, streaming>>
    /\ UNCHANGED <<rpc, tick, lastEvent>>
    /\ UNCHANGED <<ctxVars, poseVars, altVars, histVars, crashed, hostVars,
                   gfxVars, viewVars, threadVars>>

\* Variant of setScreenRotationNative that stores the rotation and leaves the
\* geometry-dirty flag as it is.
setScreenRotationNative_KeepsFlag(rotation) ==
    /\ ~crashed
    /\ initialized
    /\ rpc = "idle"
    /\ screenRotation' = rotation
    /\ pending' = countTrigger
    /\ UNCHANGED <<running, screenWidth, screenHeight, renderingParamsChanged,
                   glContextRecreated, lensDistortion, distortionRenderer,
                   eyeOffsets, fovArr, streaming>>
    /\ UNCHANGED <<rpc, tick, lastEvent>>
    /\ UNCHANGED <<ctxVars, poseVars, altVars, histVars, crashed, hostVars,
                   gfxVars, viewVars, threadVars>>

setScreenRotationNative(rotation) ==
    /\ ~crashed
    /\ initialized
    /\ rpc = "idle"
    /\ screenRotation' = rotation
    /\ renderingParamsChanged' = TRUE
    /\ pending' = countTrigger
    /\ UNCHANGED <<running, screenWidth, screenHeight, glContextRecreated,
                   lensDistortion, distortionRenderer, eyeOffsets, fovArr,
                   streaming>>
    /\ UNCHANGED <<rpc, tick, lastEvent>>
    /\ UNCHANGED <<ctxVars, poseVars, altVars, histVars, crashed, hostVars,
                   gfxVars, viewVars, threadVars>>

(***************************************************************************)
(* GL texture objects                                                      *)
(***************************************************************************)
FreeNames(tex) == {n \in DOMAIN tex : ~tex[n].live}

LowestOf(S) == CHOOSE n \in S : \A m \in S : n <= m

\* glGenTextures(2, ...): two unused names.
glGenTextures2(tex) ==
    LET n1 == LowestOf(FreeNames(tex))
    IN  <<n1, LowestOf(FreeNames(tex) \ {n1})>>

\* glGenTextures(1, ...): one unused name.
glGenTextures1(tex) == LowestOf(FreeNames(tex))

\* glBindTexture and glTexImage2D on the names of a set: texture objects of
\* w x h texels.  use records which handle of CTX the names were generated
\* into: "lobby" (lobbyTextures), "stream" (streamTextures) or "camera"
\* (arTexture).
glTexImage2D(tex, names, w, h, use) ==
    [n \in DOMAIN tex |->
        IF n \in names THEN [live |-> TRUE, w |-> w, h |-> h, use |-> use]
                       ELSE tex[n]]

\* glDeleteTextures(2, names): names that are 0 or name no texture object are
\* ignored.
glDeleteTextures(tex, names) ==
    [n \in DOMAIN tex |->
        IF n = names[1] \/ n = names[2] THEN NoTexture ELSE tex[n]]

(***************************************************************************)
(* renderNative: one render tick on the GL thread, in segments             *)
(***************************************************************************)
\* CTX.arcoreEnabled && CTX.arSession != nullptr
cameraActive == arcoreEnabled /\ arSession

\* The variant of the deferral test that never defers.
calibrationMissing_Never == FALSE

\* Lines 528-536: the geometry is dirty and
\* CardboardQrCode_getSavedDeviceParams returned size == 0.
calibrationMissing == renderingParamsChanged /\ deviceParams = "none"

\* The variant of the release test that never releases.
releaseLobby_Never == FALSE

\* Line 583: CTX.renderingParamsChanged && !CTX.glContextRecreated, the test
\* that guards glDeleteTextures(2, CTX.lobbyTextures).
releaseLobby == renderingParamsChanged /\ ~glContextRecreated

\* A deferral that skips the geometry work and goes on to the event loop.
afterDeferral_Polls == "poll"

\* Line 535: with a dirty geometry and no stored calibration renderNative
\* returns, so the tick is over.
afterDeferral == "idle"

\* Lines 528-634, up to the event loop.  freedWrite is what the store
\* "*buffer = 0" does after CardboardQrCode_destroy(buffer) released the
\* buffer: it lands in released memory ("ignored") or faults ("fault").
renderNative_geometry(freedWrite) ==
    /\ ~crashed
    /\ initialized
    /\ glContext
    /\ rpc = "idle"
    /\ IF calibrationMissing
       THEN \* size == 0: return
            /\ tick' = [dirty |-> TRUE, recreated |-> glContextRecreated,
                        calibrated |-> FALSE, pending |-> pending,
                        lobbyAllocs |-> 0, lobbyReleases |-> 0,
                        result |-> "deferred", rendered |-> "none",
                        submitted |-> FALSE]
            /\ rpc' = afterDeferral
            /\ UNCHANGED <<pending, lastEvent, crashed, sessVars, gfxVars>>
            /\ UNCHANGED lobbyViews
       ELSE IF renderingParamsChanged /\ freedWrite = "fault"
       THEN /\ crashed' = TRUE
            /\ lensDistortion' = [viewer |-> deviceParams, w |-> screenWidth,
                                  h |-> screenHeight]
            /\ tick' = [dirty |-> TRUE, recreated |-> glContextRecreated,
                        calibrated |-> TRUE, pending |-> pending,
                        lobbyAllocs |-> 0, lobbyReleases |-> 0,
                        result |-> "fault", rendered |-> "none",
                        submitted |-> FALSE]
            /\ UNCHANGED <<rpc, pending, lastEvent, gfxVars, lobbyViews>>
            /\ UNCHANGED <<running, screenWidth, screenHeight, screenRotation,
                           renderingParamsChanged, glContextRecreated,
                           distortionRenderer, eyeOffsets, fovArr, streaming>>
       ELSE LET dirty == renderingParamsChanged
                release == releaseLobby
                rebuild == renderingParamsChanged \/ glContextRecreated
                lens == IF dirty
                            THEN [viewer |-> deviceParams, w |-> screenWidth,
                                  h |-> screenHeight]
                            ELSE lensDistortion
                released == IF release
                                THEN glDeleteTextures(glTextures, lobbyTextures)
                                ELSE glTextures
                lobby == IF rebuild THEN glGenTextures2(released)
                                    ELSE lobbyTextures
                withLobby == IF rebuild
                                 THEN glTexImage2D(released, {lobby[1], lobby[2]},
                                                   screenWidth \div 2, screenHeight,
                                                   "lobby")
                                 ELSE released
                camera == IF rebuild /\ cameraActive
                              THEN glGenTextures1(withLobby)
                              ELSE arTexture
                withCamera == IF rebuild /\ cameraActive
                                  THEN glTexImage2D(withLobby, {camera}, 0, 0,
                                                    "camera")
                                  ELSE withLobby
            IN  /\ rebuild =>
                     Cardinality(FreeNames(released)) >=
                         (IF cameraActive THEN 3 ELSE 2)
                /\ lensDistortion' = lens
                /\ distortionRenderer' = (dirty \/ distortionRenderer)
                /\ eyeOffsets' = IF dirty THEN eyeFromHeadX(lens) ELSE eyeOffsets
                /\ fovArr' = IF dirty THEN <<getFov(lens, 1), getFov(lens, 2)>>
                                      ELSE fovArr
                /\ lobbyTextures' = lobby
                /\ arTexture' = camera
                /\ glTextures' = withCamera
                /\ renderingParamsChanged' =
                       IF rebuild THEN FALSE ELSE renderingParamsChanged
                /\ glContextRecreated' =
                       IF rebuild THEN FALSE ELSE glContextRecreated
                /\ pending' = IF dirty THEN 0 ELSE pending
                /\ tick' = [dirty |-> dirty, recreated |-> glContextRecreated,
                            calibrated |-> deviceParams # "none",
                            pending |-> pending,
                            lobbyAllocs |-> IF rebuild THEN 1 ELSE 0,
                            lobbyReleases |-> IF release THEN 1 ELSE 0,
                            result |-> "polling", rendered |-> "none",
                            submitted |-> FALSE]
                /\ rpc' = "poll"
                /\ lobbyViews' = ZeroViews
                /\ UNCHANGED <<running, screenWidth, screenHeight,
                               screenRotation, streaming>>
                /\ UNCHANGED <<streamTextures, streamConfig, lastEvent, crashed>>
    /\ UNCHANGED <<viewParams, deviceMotion>>
    /\ UNCHANGED <<ctxVars, poseVars, altVars, histVars, hostVars, threadVars>>

\* Stream resolutions a StreamingStarted event carries.
StreamResolutions == {<<256, 256>>}

\* The settings JSON alvr_get_settings_json returns, by what lines 660 and
\* 698-722 make of it: video.foveated_encoding is the string "Disabled"
\* ("disabled"), an object with all six numeric fields under "Enabled"
\* ("enabled"), absent or null ("absent"), a non-string value in which the
\* fields read at lines 705-722 are missing or not numbers ("badfields"); or
\* the text is not JSON at all ("unparsable").
SettingsKinds == {"disabled", "enabled", "absent", "badfields", "unparsable"}

\* json::parse at line 660 throws json::parse_error.
parseThrows(settings) == settings = "unparsable"

\* The reads at lines 705-722 throw json::type_error.
foveationThrows(settings) == settings = "badfields"

\* alvr_poll_event returned ALVR_EVENT_HUD_MESSAGE_UPDATED (lines 637-646).
renderNative_hudMessage ==
    /\ ~crashed
    /\ rpc = "poll"
    /\ lastEvent' = [NoEvent EXCEPT !.tag = "HUD_MESSAGE_UPDATED",
                                    !.wasStreaming = streaming,
                                    !.result = "handled"]
    /\ UNCHANGED <<rpc, tick, pending>>
    /\ UNCHANGED <<ctxVars, poseVars, altVars, histVars, crashed, hostVars,
                   sessVars, gfxVars, viewVars, threadVars>>

\* alvr_poll_event returned ALVR_EVENT_STREAMING_STARTED (lines 647-752).
\* A json::exception leaves the event loop and the tick through the handler
\* at line 821; assigning to CTX.inputThread while it holds a thread that was
\* not joined calls std::terminate.
renderNative_streamingStarted(w, h, settings) ==
    /\ ~crashed
    /\ rpc = "poll"
    /\ LET ev == [NoEvent EXCEPT !.tag = "STREAMING_STARTED", !.w = w,
                                 !.h = h, !.settings = settings,
                                 !.wasStreaming = streaming]
       IN  IF parseThrows(settings)
           THEN /\ lastEvent' = [ev EXCEPT !.result = "abandoned"]
                /\ tick' = [NoTick EXCEPT !.result = "abandoned"]
                /\ rpc' = "idle"
                /\ UNCHANGED <<sessVars, gfxVars, crashed, threadVars>>
           ELSE LET names == glGenTextures2(glTextures)
                    lobbyFov == <<getFov(lensDistortion, 1),
                                  getFov(lensDistortion, 2)>>
                IN  /\ Cardinality(FreeNames(glTextures)) >= 2
                    /\ streamTextures' = names
                    /\ glTextures' =
                          glTexImage2D(glTextures, {names[1], names[2]}, w, h,
                                       "stream")
                    /\ fovArr' = lobbyFov
                    /\ UNCHANGED <<lobbyTextures, arTexture>>
                    /\ UNCHANGED <<running, screenWidth, screenHeight,
                                   screenRotation, renderingParamsChanged,
                                   glContextRecreated, lensDistortion,
                                   distortionRenderer, eyeOffsets>>
                    /\ UNCHANGED <<threadEgl, now, deadline, startTime, iter,
                                   overrun, wokeAt>>
                    /\ IF foveationThrows(settings)
                       THEN /\ lastEvent' =
                                 [ev EXCEPT !.result = "abandoned",
                                            !.allocated = {names[1], names[2]}]
                            /\ tick' = [NoTick EXCEPT !.result = "abandoned"]
                            /\ rpc' = "idle"
                            /\ UNCHANGED <<streaming, streamConfig, crashed, tpc>>
                       ELSE /\ streamConfig' =
                                 [on |-> TRUE, w |-> w, h |-> h,
                                  foveation |-> (settings = "enabled"),
                                  textures |-> names]
                            /\ streaming' = TRUE
                            /\ crashed' = (tpc # "none")
                            /\ tpc' = IF tpc = "none" THEN "start" ELSE tpc
                            /\ lastEvent' =
                                 [ev EXCEPT !.result = "handled",
                                            !.allocated = {names[1], names[2]},
                                            !.threadStarted = (tpc = "none")]
                            /\ UNCHANGED <<rpc, tick>>
    /\ UNCHANGED <<deviceParams, glContext, pending>>
    /\ UNCHANGED <<ctxVars, poseVars, altVars, histVars, viewVars>>

\* The variant of the stop handler that releases the stream textures before
\* it waits for the thread.
streamingStopped_ReleaseBeforeJoin ==
    /\ ~crashed
    /\ rpc = "poll"
    /\ streaming' = FALSE
    /\ glTextures' = glDeleteTextures(glTextures, streamTextures)
    /\ crashed' = (tpc = "none")
    /\ rpc' = IF tpc = "none" THEN rpc ELSE "join"
    /\ lastEvent' = [NoEvent EXCEPT !.tag = "STREAMING_STOPPED",
                                    !.wasStreaming = streaming,
                                    !.result = "joining"]
    /\ UNCHANGED <<deviceParams, glContext, tick, pending>>
    /\ UNCHANGED <<running, screenWidth, screenHeight, screenRotation,
                   renderingParamsChanged, glContextRecreated, lensDistortion,
                   distortionRenderer, eyeOffsets, fovArr>>
    /\ UNCHANGED <<lobbyTextures, streamTextures, arTexture, streamConfig>>
    /\ UNCHANGED <<ctxVars, poseVars, altVars, histVars, viewVars, threadVars>>

\* The variant of the stop handler that clears the flag, releases the stream
\* textures and goes on with the tick without waiting for the thread.
streamingStopped_WithoutJoin ==
    /\ ~crashed
    /\ rpc = "poll"
    /\ streaming' = FALSE
    /\ glTextures' = glDeleteTextures(glTextures, streamTextures)
    /\ lastEvent' = [NoEvent EXCEPT !.tag = "STREAMING_STOPPED",
                                    !.wasStreaming = streaming,
                                    !.result = "handled"]
    /\ UNCHANGED <<deviceParams, glContext, crashed, rpc, tick, pending>>
    /\ UNCHANGED <<running, screenWidth, screenHeight, screenRotation,
                   renderingParamsChanged, glContextRecreated, lensDistortion,
                   distortionRenderer, eyeOffsets, fovArr>>
    /\ UNCHANGED <<lobbyTextures, streamTextures, arTexture, streamConfig>>
    /\ UNCHANGED <<ctxVars, poseVars, altVars, histVars, viewVars, threadVars>>

\* alvr_poll_event returned ALVR_EVENT_STREAMING_STOPPED (lines 753-756):
\* CTX.streaming = false, then CTX.inputThread.join() is entered.  join() on a
\* std::thread that holds no thread throws std::system_error, which nothing
\* catches.
renderNative_streamingStopped ==
    /\ ~crashed
    /\ rpc = "poll"
    /\ streaming' = FALSE
    /\ crashed' = (tpc = "none")
    /\ rpc' = IF tpc = "none" THEN rpc ELSE "join"
    /\ lastEvent' = [NoEvent EXCEPT !.tag = "STREAMING_STOPPED",
                                    !.wasStreaming = streaming,
                                    !.result = "joining"]
    /\ UNCHANGED <<deviceParams, glContext, tick, pending>>
    /\ UNCHANGED <<running, screenWidth, screenHeight, screenRotation,
                   renderingParamsChanged, glContextRecreated, lensDistortion,
                   distortionRenderer, eyeOffsets, fovArr>>
    /\ UNCHANGED <<gfxVars>>
    /\ UNCHANGED <<ctxVars, poseVars, altVars, histVars, viewVars, threadVars>>

\* CTX.inputThread.join() returns once inputThread has returned; then
\* glDeleteTextures(2, CTX.streamTextures) (lines 757-761) and the event loop
\* goes on.
renderNative_joined ==
    /\ ~crashed
    /\ rpc = "join"
    /\ tpc = "exited"
    /\ tpc' = "none"
    /\ glTextures' = glDeleteTextures(glTextures, streamTextures)
    /\ rpc' = "poll"
    /\ lastEvent' = [lastEvent EXCEPT !.result = "handled"]
    /\ UNCHANGED <<tick, pending>>
    /\ UNCHANGED <<lobbyTextures, streamTextures, arTexture, streamConfig>>
    /\ UNCHANGED <<threadEgl, now, deadline, startTime, iter, overrun, wokeAt>>
    /\ UNCHANGED <<ctxVars, poseVars, altVars, histVars, crashed, hostVars,
                   sessVars, viewVars>>

\* What alvr_get_frame returns while streaming: -1 or a decoded frame.
FrameResults == {"none", "frame"}

\* The variant of the stream branch that renders and reports whatever
\* alvr_get_frame returned.
streamFrameEffect_RendersAnyway(frame) ==
    [result |-> IF frame = "none" THEN "noframe" ELSE "stream",
     rendered |-> "stream", submitted |-> TRUE]

\* Lines 775-786: with timestampNs == -1 the tick returns; otherwise
\* alvr_render_stream_opengl draws the frame into the stream textures and
\* alvr_report_submit reports it.
streamFrameEffect(frame) ==
    IF frame = "none"
    THEN [result |-> "noframe", rendered |-> "none", submitted |-> FALSE]
    ELSE [result |-> "stream", rendered |-> "stream", submitted |-> TRUE]

\* Lines 772-789: the event loop found no more events and the session is
\* streaming.
renderNative_drawStream(frame) ==
    /\ ~crashed
    /\ rpc = "poll"
    /\ streaming
    /\ tick' = [NoTick EXCEPT !.result = streamFrameEffect(frame).result,
                              !.rendered = streamFrameEffect(frame).rendered,
                              !.submitted = streamFrameEffect(frame).submitted]
    /\ lastEvent' = NoEvent
    /\ rpc' = "idle"
    /\ UNCHANGED pending
    /\ UNCHANGED <<ctxVars, poseVars, altVars, histVars, crashed, hostVars,
                   sessVars, gfxVars, viewVars, threadVars>>

\* Lines 793-802: viewInputs[eye] as alvr_render_lobby_opengl receives it.
\* offsetPosWithQuat writes viewInputs[eye].pose.position, and the assignment
\* "viewInputs[eye].pose = pose" that follows replaces the whole pose.
lobbyViewInput(pose, eye) ==
    LET headToEye == <<eyeOffsets[eye], 0, 0>>
        offset == [orientation |-> ZeroQuat,
                   position |-> offsetPosWithQuat(pose.orientation, headToEye,
                                                  ZeroVec)]
        assigned == [offset EXCEPT !.orientation = pose.orientation,
                                   !.position = pose.position]
    IN  [pose |-> assigned, fov |-> getFov(lensDistortion, eye)]

\* Lines 790-806: the event loop found no more events and the session is not
\* streaming.  The GL thread's context is current during renderNative.
renderNative_drawLobby(in) ==
    /\ ~crashed
    /\ rpc = "poll"
    /\ ~streaming
    /\ PoseInputOk(in)
    /\ in.egl
    /\ LET r == getPose(in)
       IN  /\ lastOrientation' = r.lastOrientation
           /\ lastPosition' = r.lastPosition
           /\ crashed' = (r.outcome = "throw")
           /\ lobbyViews' = [eye \in 1..2 |-> lobbyViewInput(r.pose, eye)]
    /\ tick' = [NoTick EXCEPT !.result = "lobby", !.rendered = "lobby"]
    /\ lastEvent' = NoEvent
    /\ rpc' = "idle"
    /\ UNCHANGED <<pending, viewParams, deviceMotion>>
    /\ UNCHANGED <<ctxVars, altVars, histVars, hostVars, sessVars, gfxVars,
                   threadVars>>

(***************************************************************************)
(* inputThread: the dispatcher                                             *)
(***************************************************************************)
\* What steady_clock::now() reads when the thread starts.
StartTimes == {0, 1000}

\* How long the EGL setup and one body of the loop (updateViewConfigs and
\* alvr_send_tracking) can take: FastBody ends well before the deadline,
\* SlowBody as far after the next deadline as FastBody ends before it.
FastBody == 1000000

SlowBody == 2 * DispatchInterval - FastBody

\* Lines 277-341: deadline = now(), then, with ARCore, the thread's own EGL
\* context; each failing EGL call throws std::runtime_error out of the
\* thread function.
inputThread_start(t0, eglOk, d) ==
    /\ ~crashed
    /\ tpc = "start"
    /\ deadline' = t0
    /\ startTime' = t0
    /\ iter' = 0
    /\ overrun' = FALSE
    /\ wokeAt' = t0
    /\ IF arcoreEnabled
       THEN /\ now' = t0 + d
            /\ threadEgl' = eglOk
            /\ crashed' = ~eglOk
       ELSE /\ now' = t0
            /\ threadEgl' = FALSE
            /\ UNCHANGED crashed
    /\ tpc' = "loop"
    /\ UNCHANGED <<ctxVars, poseVars, altVars, histVars, hostVars, sessVars,
                   gfxVars, viewVars, renderVars>>

\* The variant of the loop test that does not read CTX.streaming.
inputThread_check_IgnoresStop(maxIter) ==
    /\ ~crashed
    /\ tpc = "loop"
    /\ iter < maxIter
    /\ tpc' = "body"
    /\ UNCHANGED <<threadEgl, now, deadline, startTime, iter, overrun, wokeAt>>
    /\ UNCHANGED <<ctxVars, poseVars, altVars, histVars, crashed, hostVars,
                   sessVars, gfxVars, viewVars, renderVars>>

\* Line 344: while (CTX.streaming).  maxIter bounds the iterations explored.
inputThread_check(maxIter) ==
    /\ ~crashed
    /\ tpc = "loop"
    /\ streaming => iter < maxIter
    /\ IF streaming
       THEN /\ tpc' = "body"
            /\ UNCHANGED <<now, deadline, startTime, iter, overrun, wokeAt>>
       ELSE \* inputThread returns and its locals are gone
            /\ tpc' = "exited"
            /\ now' = 0
            /\ deadline' = 0
            /\ startTime' = 0
            /\ iter' = 0
            /\ overrun' = FALSE
            /\ wokeAt' = 0
    /\ UNCHANGED threadEgl
    /\ UNCHANGED <<ctxVars, poseVars, altVars, histVars, crashed, hostVars,
                   sessVars, gfxVars, viewVars, renderVars>>

\* The variant of the loop body that computes the next deadline from the
\* clock instead of accumulating it.
nextDeadline_FromNow(d) == now + d + DispatchInterval

\* Line 352: deadline += std::chrono::nanoseconds((uint64_t) (1e9 / 60.f / 3)),
\* after a body that took d.
nextDeadline(d) == deadline + DispatchInterval

\* Lines 346-352: updateViewConfigs, alvr_send_tracking, deadline += interval.
\* A loop body that also marks the geometry dirty.
inputThread_body_MarksDirty(in, d) ==
    /\ ~crashed
    /\ tpc = "body"
    /\ PoseInputOk(in)
    /\ in.egl = threadEgl
    /\ LET u == updateViewConfigs(in)
       IN  /\ lastOrientation' = u.r.lastOrientation
           /\ lastPosition' = u.r.lastPosition
           /\ crashed' = (u.r.outcome = "throw")
           /\ deviceMotion' = u.deviceMotion
           /\ viewParams' = u.viewParams
    /\ deadline' = nextDeadline(d)
    /\ now' = now + d
    /\ iter' = iter + 1
    /\ overrun' = (overrun \/ now + d > nextDeadline(d))
    /\ tpc' = "sleep"
    /\ renderingParamsChanged' = TRUE
    /\ UNCHANGED <<running, screenWidth, screenHeight, screenRotation,
                   glContextRecreated, lensDistortion, distortionRenderer,
                   eyeOffsets, fovArr, streaming>>
    /\ UNCHANGED <<threadEgl, startTime, wokeAt, lobbyViews>>
    /\ UNCHANGED <<ctxVars, altVars, histVars, hostVars, gfxVars, renderVars>>

inputThread_body(in, d) ==
    /\ ~crashed
    /\ tpc = "body"
    /\ PoseInputOk(in)
    /\ in.egl = threadEgl
    /\ LET u == updateViewConfigs(in)
       IN  /\ lastOrientation' = u.r.lastOrientation
           /\ lastPosition' = u.r.lastPosition
           /\ crashed' = (u.r.outcome = "throw")
           /\ deviceMotion' = u.deviceMotion
           /\ viewParams' = u.viewParams
    /\ deadline' = nextDeadline(d)
    /\ now' = now + d
    /\ iter' = iter + 1
    /\ overrun' = (overrun \/ now + d > nextDeadline(d))
    /\ tpc' = "sleep"
    /\ UNCHANGED <<threadEgl, startTime, wokeAt, lobbyViews>>
    /\ UNCHANGED <<ctxVars, altVars, histVars, hostVars, sessVars, gfxVars,
                   renderVars>>

\* Line 353: std::this_thread::sleep_until(deadline) returns at the deadline,
\* or at once when the deadline has passed.
inputThread_sleep ==
    /\ ~crashed
    /\ tpc = "sleep"
    /\ now' = IF now < deadline THEN deadline ELSE now
    /\ wokeAt' = now'
    /\ tpc' = "loop"
    /\ UNCHANGED <<threadEgl, deadline, startTime, iter, overrun>>
    /\ UNCHANGED <<ctxVars, poseVars, altVars, histVars, crashed, hostVars,
                   sessVars, gfxVars, viewVars, renderVars>>

(***************************************************************************)
(* Specification of the session: host calls, render ticks, dispatcher      *)
(***************************************************************************)
\* The session is explored without the camera (enableARCore false), with one
\* head orientation and bodies that meet their deadlines; SpecPose, SpecViews
\* and SpecDispatch vary these.
SessionPoseInputs ==
    {in \in PoseInputs : /\ in.hq = IdentityQuat
                         /\ in.arT = <<100, 1200, -300>>
                         /\ in.arRet = IF arFrame THEN "AR_SUCCESS"
                                                   ELSE "AR_ERROR"
                         /\ in.tracking = "TRACKING"}

Next ==
    \/ initializeNative(FALSE, TRUE, TRUE, TRUE)
    \/ \E viewer \in SessionViewers : saveDeviceParams(viewer)
    \/ resumeNative
    \/ pauseNative
    \/ surfaceCreatedNative
    \/ \E size \in ScreenSizes : setScreenResolutionNative(size[1], size[2])
    \/ \E rotation \in Rotations : setScreenRotationNative(rotation)
    \/ \E freedWrite \in {"ignored", "fault"} : renderNative_geometry(freedWrite)
    \/ renderNative_hudMessage
    \/ \E size \in StreamResolutions, settings \in SettingsKinds :
          renderNative_streamingStarted(size[1], size[2], settings)
    \/ renderNative_streamingStopped
    \/ renderNative_joined
    \/ \E frame \in FrameResults : renderNative_drawStream(frame)
    \/ \E in \in SessionPoseInputs : renderNative_drawLobby(in)
    \/ \E eglOk \in BOOLEAN : inputThread_start(0, eglOk, FastBody)
    \/ inputThread_check(MaxIter)
    \/ \E in \in SessionPoseInputs : inputThread_body(in, FastBody)
    \/ inputThread_sleep

Spec == Init /\ [][Next]_vars

(***************************************************************************)
(* Specification of the view configuration: a session that starts          *)
(* streaming, with every head orientation, camera outcome and viewer       *)
(***************************************************************************)
NextViews ==
    \/ \E enableARCore, arCreateOk, arConfigureOk, sensorOk \in BOOLEAN :
          initializeNative(enableARCore, arCreateOk, arConfigureOk, sensorOk)
    \/ \E events \in SeqsUpTo(SensorEvents, 1) \ {<<>>} : onSensorChanged(events)
    \/ \E viewer \in Viewers : saveDeviceParams(viewer)
    \/ surfaceCreatedNative
    \/ \E size \in ScreenSizes : setScreenResolutionNative(size[1], size[2])
    \/ renderNative_geometry("ignored")
    \/ renderNative_streamingStarted(256, 256, "disabled")
    \/ \E eglOk \in BOOLEAN : inputThread_start(0, eglOk, FastBody)
    \/ inputThread_check(MaxIter)
    \/ \E in \in PoseInputs : inputThread_body(in, FastBody)
    \/ inputThread_sleep

SpecViews == Init /\ [][NextViews]_vars

(***************************************************************************)
(* Specification of the dispatcher's schedule: a session that starts       *)
(* streaming and a dispatcher whose bodies meet or miss their deadlines    *)
(***************************************************************************)
NextDispatch ==
    \/ \E enableARCore \in BOOLEAN :
          initializeNative(enableARCore, TRUE, TRUE, TRUE)
    \/ saveDeviceParams("cardboardV1")
    \/ surfaceCreatedNative
    \/ setScreenResolutionNative(2400, 1080)
    \/ renderNative_geometry("ignored")
    \/ renderNative_streamingStarted(256, 256, "disabled")
    \/ \E t0 \in StartTimes : inputThread_start(t0, TRUE, FastBody)
    \/ inputThread_check(MaxDispatchIter)
    \/ \E in \in SessionPoseInputs, d \in {FastBody, SlowBody} :
          inputThread_body(in, d)
    \/ inputThread_sleep

SpecDispatch == Init /\ [][NextDispatch]_vars

(***************************************************************************)
(* Specification of stopping a stream: sessions that start and stop        *)
(* streams, with a dispatcher that is scheduled                            *)
(***************************************************************************)
NextStop ==
    \/ \E enableARCore \in BOOLEAN :
          initializeNative(enableARCore, TRUE, TRUE, TRUE)
    \/ saveDeviceParams("cardboardV1")
    \/ surfaceCreatedNative
    \/ renderNative_geometry("ignored")
    \/ renderNative_streamingStarted(256, 256, "disabled")
    \/ renderNative_streamingStopped
    \/ renderNative_joined
    \/ \E frame \in FrameResults : renderNative_drawStream(frame)
    \/ \E in \in SessionPoseInputs : renderNative_drawLobby(in)
    \/ \E eglOk \in BOOLEAN : inputThread_start(0, eglOk, FastBody)
    \/ inputThread_check(MaxIter)
    \/ \E in \in SessionPoseInputs, d \in {FastBody, SlowBody} :
          inputThread_body(in, d)
    \/ inputThread_sleep

\* A started thread is scheduled: its set-up, its loop test, its body (whose
\* calls return) and its sleep (which ends at the deadline) each take place
\* once they can.
inputThreadRuns ==
    WF_vars(\/ \E eglOk \in BOOLEAN : inputThread_start(0, eglOk, FastBody)
            \/ inputThread_check(MaxIter)
            \/ \E in \in SessionPoseInputs, d \in {FastBody, SlowBody} :
                  inputThread_body(in, d)
            \/ inputThread_sleep)

\* std::thread::join returns once the thread function has returned.
joinReturns == WF_vars(renderNative_joined)

SpecStop == Init /\ [][NextStop]_vars /\ inputThreadRuns /\ joinReturns

(***************************************************************************)
(* Specification of pose fusion and altitude estimation                    *)
(***************************************************************************)
NextPose ==
    \/ \E enableARCore, arCreateOk, arConfigureOk, sensorOk \in BOOLEAN :
          initializeNative(enableARCore, arCreateOk, arConfigureOk, sensorOk)
    \/ \E events \in SensorBatches : onSensorChanged(events)
    \/ \E in \in PoseInputs : CallGetPose(in)

SpecPose == Init /\ [][NextPose]_vars

\* The pose operations under either initialiser of useARCoreOrientation:
\* lines 181 and 229 read it, and only the initialiser at line 26 sets it.
InitOrientation ==
    /\ useARCoreOrientation \in BOOLEAN
    /\ InitContext

\* The barometer has no part in the orientation: the device has none here.
NextOrientation ==
    \/ \E enableARCore, arCreateOk, arConfigureOk \in BOOLEAN :
          initializeNative(enableARCore, arCreateOk, arConfigureOk, FALSE)
    \/ \E in \in PoseInputs : CallGetPose(in)

SpecOrientation == InitOrientation /\ [][NextOrientation]_vars

(***************************************************************************)
(* Claims about pose fusion and altitude estimation (under SpecPose)       *)
(***************************************************************************)

\* C1, as stated: whenever a getPose call ends in a recoverable
\* camera-tracking failure, the pose it returns equals, in position and in
\* orientation, the pose returned by the most recent successful call.
C1_FallbackEqualsLastReturnedPose ==
    (call.outcome = "fallback" /\ lastOk.outcome = "ok")
        => call.pose = lastOk.pose

\* C1, what the code returns instead: a getPose call that ends in a
\* recoverable camera-tracking failure returns the two caches: its position is the camera translation
\* read by the most recent successful call (all three components as the
\* camera gave them, without the barometric height that call returned), or
\* zero when no call has succeeded yet; its orientation is the orientation
\* cache, which is the inverted head-tracker orientation read in this very
\* call when the head tracker supplies the orientation, and the camera
\* orientation of the most recent successful call otherwise.
C1_FallbackReturnsCaches ==
    call.outcome = "fallback" =>
        /\ call.pose.position =
              IF lastOk.outcome = "ok" THEN lastOk.arT ELSE ZeroVec
        /\ call.pose.orientation =
              IF ~useARCoreOrientation THEN inverseQuat(call.in.hq)
              ELSE IF lastOk.outcome = "ok" THEN lastOk.arQ ELSE ZeroQuat

\* C1 witness: a call failed after an earlier call had succeeded; the height
\* it returns is the camera's, not the barometric height the successful call
\* returned, and its orientation is the head tracker's of this call.
C1_Witness ==
    /\ call.outcome = "fallback"
    /\ lastOk.outcome = "ok"
    /\ call.pose.position[2] = lastOk.arT[2]
    /\ call.pose.position[2] # lastOk.pose.position[2]
    /\ call.pose.orientation # lastOk.pose.orientation

\* C4, as stated: getPose never fails; for every combination of source
\* outcomes, graphics context absent included, it returns a pose rather than
\* raising an error.
C4_GetPoseNeverRaises ==
    call.outcome # "throw"

\* C4, amended: getPose returns a pose for every combination of source
\* outcomes except one: when camera tracking is active (enabled, with a
\* session) and no graphics context is current on the calling thread it
\* throws std::runtime_error, and it throws in no other case.
C4_GetPoseRaisesOnlyWithoutContext ==
    call.outcome # "none" =>
        /\ (call.outcome = "throw") <=> (arcoreEnabled /\ arSession /\ ~call.in.egl)
        /\ crashed <=> (call.outcome = "throw")
        /\ call.outcome \in {"ok", "fallback", "throw"}

\* C4 witness: calls returned a pose although a source had failed: the
\* session advance failed with camera tracking active.
C4_Witness ==
    /\ call.outcome = "fallback"
    /\ call.in.arRet = "AR_ERROR"
    /\ ~crashed

C6_FloorFixedByFirstSample ==
    firstSample # 0 =>
        /\ floorAltitude = pressureToAltitude(SEA_LEVEL_PRESSURE, firstSample)
        /\ getAltitudeFromBarometer =
              pressureToAltitude(SEA_LEVEL_PRESSURE, lastSample)
                  - pressureToAltitude(SEA_LEVEL_PRESSURE, firstSample)

\* C7: every pressure sample becomes the current pressure (the latest sample
\* wins, whatever the calibration state), and the current altitude is
\* altitudeFromPressure(seaLevel, currentPressure) minus the stored floor
\* altitude; that is the height a successful camera read returns.
C7_LatestSampleWins ==
    /\ currentPressure = lastSample
    /\ lastSample # 0 =>
          getAltitudeFromBarometer =
              pressureToAltitude(SEA_LEVEL_PRESSURE, lastSample) - floorAltitude
    /\ (call.outcome = "ok" /\ call.camera /\ useBarometerAltitudeTracking) =>
          call.pose.position[2] =
              pressureToAltitude(SEA_LEVEL_PRESSURE, call.pre.currentPressure)
                  - call.pre.floorAltitude

\* C7 witness: a sample arrived after the calibrating one, and a camera read
\* returned the height it gives.
C7_Witness ==
    /\ lastSample # 0
    /\ lastSample # firstSample
    /\ floorAltitude # 0
    /\ call.outcome = "ok" /\ call.camera
    /\ call.pre.currentPressure = lastSample
    /\ call.pose.position[2] # 0

(***************************************************************************)
(* Claims about the session (under Spec)                                   *)
(***************************************************************************)

\* C2, as stated: a StreamingStarted event carrying resolution W x H that a
\* render tick processes while the session is not streaming allocates
\* exactly two stream textures sized W x H, starts exactly one dispatcher
\* thread, and leaves the session streaming.
C2_StartedInLobbyStartsStream ==
    (lastEvent.tag = "STREAMING_STARTED" /\ ~lastEvent.wasStreaming) =>
        /\ Cardinality(lastEvent.allocated) = 2
        /\ lastEvent.allocated = {streamTextures[1], streamTextures[2]}
        /\ rpc # "idle" =>
              \A n \in lastEvent.allocated :
                  glTextures[n] = [live |-> TRUE, w |-> lastEvent.w,
                                   h |-> lastEvent.h, use |-> "stream"]
        /\ lastEvent.threadStarted
        /\ tpc # "none"
        /\ streaming

\* A step of the render tick's event loop that releases a live stream
\* texture.
ReleasesStreamTexture ==
    /\ rpc \in {"poll", "join"}
    /\ \E n \in {streamTextures[1], streamTextures[2]} \ {0} :
          glTextures[n].live /\ ~glTextures'[n].live

\* C3: on a StreamingStopped event while streaming, the render tick clears
\* the streaming flag and waits for the dispatcher thread to return before it
\* releases the stream textures: the step that releases them is taken when
\* inputThread has returned, it is the step in which join() returns, and the
\* session is not streaming after it.
C3_JoinBeforeRelease ==
    [][ReleasesStreamTexture =>
          /\ tpc = "exited"
          /\ tpc' = "none"
          /\ lastEvent.tag = "STREAMING_STOPPED"
          /\ ~streaming'
          /\ rpc' = "poll"]_vars

\* C3 witness: a StreamingStopped event that arrived while streaming has been
\* handled: the thread is joined and the stream textures are released.
C3_Witness ==
    /\ lastEvent.tag = "STREAMING_STOPPED"
    /\ lastEvent.wasStreaming
    /\ lastEvent.result = "handled"
    /\ tpc = "none"
    /\ ~streaming
    /\ \A n \in {streamTextures[1], streamTextures[2]} : ~glTextures[n].live

HamiltonProduct(a, b) ==
    << a[4] * b[1] + a[1] * b[4] + a[2] * b[3] - a[3] * b[2],
       a[4] * b[2] - a[1] * b[3] + a[2] * b[4] + a[3] * b[1],
       a[4] * b[3] + a[1] * b[2] - a[2] * b[1] + a[3] * b[4],
       a[4] * b[4] - a[1] * b[1] - a[2] * b[2] - a[3] * b[3] >>

\* The rotation of vector v by the unit quaternion q, as q v q*.  The
\* components of q are in halves, so the product carries a factor of four.
Rotate(q, v) ==
    LET p == HamiltonProduct(HamiltonProduct(q, <<v[1], v[2], v[3], 0>>),
                             <<-q[1], -q[2], -q[3], q[4]>>)
    IN  <<p[1] \div 4, p[2] \div 4, p[3] \div 4>>

\* headPos - rotate(headOrientation, offset), with the floor height added to
\* the Y component.
EyePosition(head, offset) ==
    LET r == Rotate(head.orientation, <<offset, 0, 0>>)
    IN  << head.position[1] - r[1],
           head.position[2] - r[2] + FLOOR_HEIGHT,
           head.position[3] - r[3] >>

\* C8: after a dispatch tick's view configuration, each eye's pose has the
\* head pose's orientation and the position headPos - rotate(headOrientation,
\* offset) with the floor height added to Y; with identity orientation, zero
\* head position and an offset of 0.03 m the eye position is (-0.03, 1.5, 0).
C8_EyePoseIsOffsetHeadPose ==
    (tpc \in {"sleep", "loop"} /\ iter >= 1) =>
        \A eye \in 1..2 :
            /\ viewParams[eye].pose.orientation = deviceMotion.orientation
            /\ viewParams[eye].pose.position =
                  EyePosition(deviceMotion, eyeOffsets[eye])
            /\ ( /\ deviceMotion.orientation = IdentityQuat
                 /\ deviceMotion.position = ZeroVec
                 /\ eyeOffsets[eye] = 30 ) =>
                    viewParams[eye].pose.position = <<-30, 1500, 0>>

\* C8 witness: a dispatch tick configured the views from a head pose that is
\* turned and away from the origin, with the two eyes' offsets differing.
C8_Witness ==
    /\ tpc = "sleep"
    /\ iter >= 1
    /\ deviceMotion.orientation = <<-1, -1, -1, 1>>
    /\ deviceMotion.position = <<-50, 41819, 40>>
    /\ eyeOffsets = <<32, -32>>
    /\ viewParams[1].pose.position = <<-50, 43319, 8>>
    /\ viewParams[2].pose.position = <<-50, 43319, 72>>

(***************************************************************************)
(* Claims about the dispatcher's schedule (under SpecDispatch)             *)
(***************************************************************************)

\* C10: while the dispatcher runs, its deadline is its start time plus the
\* number of completed iterations times the fixed interval of 5555555 ns,
\* however long the bodies took; and as long as every body has ended by its
\* deadline, the k-th sleep ends exactly at start + k * interval.
C10_DeadlinesAccumulateWithoutDrift ==
    tpc \in {"loop", "body", "sleep"} =>
        /\ deadline = startTime + iter * DispatchInterval
        /\ (tpc # "sleep" /\ iter >= 1 /\ ~overrun) =>
              (wokeAt = startTime + iter * DispatchInterval /\ now = wokeAt)

\* C10 witness: one hundred iterations whose bodies all met their deadlines,
\* the hundredth sleep ending at start + 100 * interval.
C10_Witness ==
    /\ tpc = "loop"
    /\ iter = 100
    /\ ~overrun
    /\ wokeAt = startTime + 100 * DispatchInterval

(***************************************************************************)
(* Claims about the stream life cycle (under Spec)                         *)
(***************************************************************************)
\* A texture object generated into CTX.streamTextures is allocated.
StreamTextureAllocated ==
    \E n \in DOMAIN glTextures :
        glTextures[n].live /\ glTextures[n].use = "stream"

\* C11: at a render-tick boundary, stream textures are allocated only while
\* the session is streaming.
C11_StreamTexturesOnlyWhileStreaming ==
    (rpc = "idle" /\ ~crashed) => (StreamTextureAllocated => streaming)

\* C11: a tick has ended in Lobby after a stream start that was abandoned
\* part-way, and the textures that start allocated are still there.
C11_Witness ==
    /\ rpc = "idle"
    /\ ~crashed
    /\ tick.result = "abandoned"
    /\ ~streaming
    /\ tpc = "none"
    /\ \A n \in {streamTextures[1], streamTextures[2]} :
          /\ n # 0
          /\ glTextures[n] = [live |-> TRUE, w |-> 256, h |-> 256,
                              use |-> "stream"]

\* C12: a StreamingStarted event received while the session is streaming is
\* not acted on: it allocates no stream textures, starts no thread and leaves
\* the running thread's handle alone.
C12_StartedWhileStreamingIgnored ==
    (lastEvent.tag = "STREAMING_STARTED" /\ lastEvent.wasStreaming) =>
        /\ lastEvent.allocated = {}
        /\ ~lastEvent.threadStarted
        /\ ~crashed

\* C12: a StreamingStarted event was handled while the session was streaming
\* and its dispatcher was running: two more stream textures are allocated next
\* to the two of the running stream, and the assignment to the thread handle
\* that still held the running thread has ended the process.
C12_Witness ==
    /\ lastEvent.tag = "STREAMING_STARTED"
    /\ lastEvent.wasStreaming
    /\ tpc \in {"loop", "body", "sleep"}
    /\ lastEvent.allocated = {streamTextures[1], streamTextures[2]}
    /\ Cardinality({n \in DOMAIN glTextures :
                       glTextures[n].live /\ glTextures[n].use = "stream"}) = 4
    /\ crashed

\* C13: a StreamingStopped event processed while the session is not streaming
\* and no dispatcher thread runs raises no error, waits for no thread, and
\* leaves the session and the textures as they were.
C13_StoppedWhileNotStreamingIsNoOp ==
    (lastEvent.tag = "STREAMING_STOPPED" /\ ~lastEvent.wasStreaming) =>
        /\ ~crashed
        /\ rpc = "poll"
        /\ lastEvent.result = "handled"
        /\ ~streaming

\* C13: a StreamingStopped event was taken from the queue in Lobby, with no
\* dispatcher thread: join() raised and the process has ended inside the
\* handler.
C13_Witness ==
    /\ lastEvent.tag = "STREAMING_STOPPED"
    /\ ~lastEvent.wasStreaming
    /\ lastEvent.result = "joining"
    /\ tpc = "none"
    /\ ~streaming
    /\ crashed

\* C14: a StreamingStarted event handled in Lobby whose settings carry
\* foveation fields that cannot be read still completes in its tick: the
\* stream is started with foveation off, the dispatcher is started, the
\* session is streaming and the tick goes on.
C14_FoveationFailureIsNonFatal ==
    (/\ lastEvent.tag = "STREAMING_STARTED"
     /\ lastEvent.settings = "badfields"
     /\ ~lastEvent.wasStreaming) =>
        /\ lastEvent.result = "handled"
        /\ tick.result # "abandoned"
        /\ streamConfig.on
        /\ ~streamConfig.foveation
        /\ streamConfig.textures = streamTextures
        /\ lastEvent.threadStarted
        /\ tpc # "none"
        /\ streaming

\* C14: the foveation fields could not be read during a stream start in Lobby:
\* the tick was abandoned with the stream textures allocated, no stream
\* started, no dispatcher and the session not streaming.
C14_Witness ==
    /\ lastEvent.tag = "STREAMING_STARTED"
    /\ lastEvent.settings = "badfields"
    /\ ~lastEvent.wasStreaming
    /\ lastEvent.result = "abandoned"
    /\ lastEvent.allocated = {streamTextures[1], streamTextures[2]}
    /\ tick.result = "abandoned"
    /\ rpc = "idle"
    /\ ~streamConfig.on
    /\ tpc = "none"
    /\ ~streaming
    /\ ~crashed

(***************************************************************************)
(* Claims about the callers of getPose (under SpecPose)                    *)
(***************************************************************************)
\* C15: a camera-tracking read that finds no graphics context current is
\* signalled by an error of its own, not by the fallback to the last-known
\* position, and costs only the tick that made the call: the caller, render
\* tick or dispatcher loop, goes on.
C15_MissingContextEndsOnlyTheTick ==
    (call.outcome # "none" /\ cameraActive /\ ~call.in.egl) =>
        /\ call.outcome = "throw"
        /\ lastPosition = call.pre.lastPosition
        /\ ~crashed

\* C15: with camera tracking active, getPose was called on a thread with no
\* current graphics context: it raised instead of falling back, and the
\* exception ended the process.
C15_Witness ==
    /\ call.outcome = "throw"
    /\ cameraActive
    /\ ~call.in.egl
    /\ lastPosition = call.pre.lastPosition
    /\ crashed

(***************************************************************************)
(* Claims about the geometry work of a render tick (under Spec)            *)
(***************************************************************************)
\* A render tick starts: the only step taken between ticks that changes the
\* record of the current tick.
TickStarts == rpc = "idle" /\ tick' # tick

\* C16: a render tick that finds the geometry dirty and no stored calibration
\* defers: both flags keep their values (the geometry flag set), no texture is
\* released or allocated, the tick ends there; and a tick that finds the
\* geometry dirty with calibration stored does not defer.
C16_DeferralKeepsFlagsAndTextures ==
    [][/\ (TickStarts /\ renderingParamsChanged /\ deviceParams = "none") =>
            /\ tick'.result = "deferred"
            /\ renderingParamsChanged'
            /\ glContextRecreated' = glContextRecreated
            /\ lobbyTextures' = lobbyTextures
            /\ glTextures' = glTextures
            /\ rpc' = "idle"
       /\ (TickStarts /\ renderingParamsChanged /\ deviceParams # "none") =>
            tick'.result # "deferred"]_vars

\* C16: a tick has deferred after the surface was created and a geometry
\* trigger arrived: both flags are still set, no texture has been allocated,
\* and the render tick is over.
C16_Witness ==
    /\ tick.result = "deferred"
    /\ tick.recreated
    /\ tick.pending >= 1
    /\ rpc = "idle"
    /\ renderingParamsChanged
    /\ glContextRecreated
    /\ deviceParams = "none"
    /\ lobbyTextures = <<0, 0>>
    /\ \A n \in DOMAIN glTextures : ~glTextures[n].live

\* The names of the live texture objects generated into CTX.lobbyTextures.
LiveLobbyTextures ==
    {n \in DOMAIN glTextures :
        glTextures[n].live /\ glTextures[n].use = "lobby"}

\* C17: a tick that reaches the texture work releases the lobby pair exactly
\* when the geometry was dirty and the GL context was not recreated; what it
\* releases is the live pair allocated before (no double release), and in
\* every state the live lobby textures of the current GL context are at most
\* the pair CTX.lobbyTextures names (no leak).
C17_LobbyReleasedBeforeReallocated ==
    /\ [](/\ tick.result = "polling" =>
                (tick.lobbyReleases = 1 <=> (tick.dirty /\ ~tick.recreated))
          /\ tick.lobbyReleases = 1 => tick.lobbyAllocs = 1
          /\ LiveLobbyTextures \subseteq {lobbyTextures[1], lobbyTextures[2]}
          /\ Cardinality(LiveLobbyTextures) \in {0, 2})
    /\ [][(TickStarts /\ tick'.lobbyReleases = 1) =>
              /\ LiveLobbyTextures = {lobbyTextures[1], lobbyTextures[2]}
              /\ Cardinality(LiveLobbyTextures) = 2]_vars

\* C17: a tick found the geometry dirty in the GL context that already held a
\* lobby pair: it released that pair and allocated the new one, and exactly
\* one pair is live.
C17_Witness ==
    /\ tick.result = "polling"
    /\ tick.dirty
    /\ ~tick.recreated
    /\ tick.lobbyReleases = 1
    /\ tick.lobbyAllocs = 1
    /\ LiveLobbyTextures = {lobbyTextures[1], lobbyTextures[2]}
    /\ Cardinality(LiveLobbyTextures) = 2

\* The lobby pair CTX.lobbyTextures names after the step is live at the view
\* resolution, half the screen width by the screen height.
LobbyAllocatedAtViewResolution ==
    \A n \in {lobbyTextures'[1], lobbyTextures'[2]} :
        /\ n # 0
        /\ glTextures'[n] = [live |-> TRUE, w |-> screenWidth \div 2,
                             h |-> screenHeight, use |-> "lobby"]

\* C18: a render tick that finds the geometry dirty or the GL context
\* recreated, with calibration stored, allocates the lobby pair at the view
\* resolution and leaves both flags false; a tick that finds neither flag set
\* allocates and releases no lobby texture.
C18_DirtyTickReallocatesAndClearsFlags ==
    [][/\ (/\ TickStarts
           /\ renderingParamsChanged \/ glContextRecreated
           /\ deviceParams # "none") =>
              /\ tick'.lobbyAllocs = 1
              /\ LobbyAllocatedAtViewResolution
              /\ ~renderingParamsChanged'
              /\ ~glContextRecreated'
              /\ ~crashed'
       /\ (TickStarts /\ ~renderingParamsChanged /\ ~glContextRecreated) =>
              /\ tick'.lobbyAllocs = 0
              /\ tick'.lobbyReleases = 0
              /\ lobbyTextures' = lobbyTextures
              /\ glTextures' = glTextures]_vars

\* C18, what the code does: the same, for the ticks in which the store to the
\* released calibration buffer does not fault; a tick in which it faults ends
\* the process with the flags set and nothing allocated.
C18_ReallocatesUnlessStoreFaults ==
    [][/\ (/\ TickStarts
           /\ renderingParamsChanged \/ glContextRecreated
           /\ deviceParams # "none") =>
              \/ /\ tick'.result = "polling"
                 /\ tick'.lobbyAllocs = 1
                 /\ LobbyAllocatedAtViewResolution
                 /\ ~renderingParamsChanged'
                 /\ ~glContextRecreated'
                 /\ ~crashed'
              \/ /\ tick'.result = "fault"
                 /\ renderingParamsChanged
                 /\ renderingParamsChanged'
                 /\ glContextRecreated' = glContextRecreated
                 /\ glTextures' = glTextures
                 /\ crashed'
       /\ (TickStarts /\ ~renderingParamsChanged /\ ~glContextRecreated) =>
              /\ tick'.lobbyAllocs = 0
              /\ tick'.lobbyReleases = 0
              /\ lobbyTextures' = lobbyTextures
              /\ glTextures' = glTextures]_vars

\* C18: a tick found the geometry dirty with calibration stored, and the store
\* to the released calibration buffer faulted: the process has ended with the
\* geometry flag set and no lobby texture allocated by the tick.
C18_Witness ==
    /\ tick.result = "fault"
    /\ tick.dirty
    /\ tick.calibrated
    /\ tick.lobbyAllocs = 0
    /\ renderingParamsChanged
    /\ LiveLobbyTextures = {}
    /\ crashed

(***************************************************************************)
(* Claims about stopping the dispatcher (under SpecStop)                   *)
(***************************************************************************)
\* C19: once CTX.streaming is cleared and the stopper waits in join(), the
\* loop test starts no further iteration, so the loop ends after at most the
\* iteration in progress; a dispatcher that has entered its loop always
\* exits without an error, join() returns and the render tick goes on with
\* the event loop.  (A dispatcher still in its set-up either reaches the loop
\* or ends the process when the set-up fails.)
C19_StopEndsLoopAndJoinReturns ==
    /\ [][/\ (rpc = "join" /\ tpc = "loop") => tpc' # "body"
          /\ (rpc = "join" /\ tpc # "start") => ~crashed']_vars
    /\ (rpc = "join") ~> ((rpc = "poll" /\ tpc = "none") \/ crashed)

\* C19: a StreamingStopped event was handled while the dispatcher ran, after
\* the dispatcher had sent tracking data at least once: the join has returned,
\* no thread is left and the render tick is back in its event loop.
C19_Witness ==
    /\ lastEvent.tag = "STREAMING_STOPPED"
    /\ lastEvent.wasStreaming
    /\ lastEvent.result = "handled"
    /\ deviceMotion # ZeroPose
    /\ rpc = "poll"
    /\ tpc = "none"
    /\ ~streaming
    /\ ~crashed

(***************************************************************************)
(* Claims about the lobby draw of a render tick (under Spec)               *)
(***************************************************************************)
\* The eye position the per-eye derivation of the dispatch tick gives for a
\* head at the origin with the orientation the lobby renderer received.
LobbyEyeFromOrigin(eye) ==
    EyePosition([orientation |-> lobbyViews[1].pose.orientation,
                 position |-> ZeroVec], eyeOffsets[eye])

\* C20: the per-eye poses a Lobby tick hands to the lobby renderer are the
\* head pose offset per eye as in the dispatch tick: both carry the head
\* orientation, their positions differ by the difference of the two rotated
\* eye offsets, and so differ whenever the offsets differ.
C20_LobbyEyePoseIsOffsetHeadPose ==
    tick.result = "lobby" =>
        /\ lobbyViews[2].pose.orientation = lobbyViews[1].pose.orientation
        /\ \A i \in 1..3 :
              lobbyViews[1].pose.position[i] - lobbyViews[2].pose.position[i]
                  = LobbyEyeFromOrigin(1)[i] - LobbyEyeFromOrigin(2)[i]
        /\ eyeOffsets[1] # eyeOffsets[2] =>
              lobbyViews[1].pose.position # lobbyViews[2].pose.position

\* C20: a Lobby tick drew with eye offsets of 0.03 m and -0.03 m, and the two
\* eyes received one and the same pose, the head pose without offset and
\* without the floor height.
C20_Witness ==
    /\ tick.result = "lobby"
    /\ eyeOffsets = <<30, -30>>
    /\ lobbyViews[1].pose = lobbyViews[2].pose
    /\ lobbyViews[1].pose.orientation = IdentityQuat
    /\ lobbyViews[1].pose.position = ZeroVec
    /\ LobbyEyeFromOrigin(1) = <<-30, FLOOR_HEIGHT, 0>>
    /\ LobbyEyeFromOrigin(2) = <<30, FLOOR_HEIGHT, 0>>

(***************************************************************************)
(* Claims about the stream draw of a render tick (under Spec)              *)
(***************************************************************************)
\* C21: a render tick that is streaming and gets "no frame ready" from
\* alvr_get_frame ends there: it renders nothing into the stream textures,
\* reports no submission, raises no error, and leaves the streaming flag, the
\* dirty flags, the texture handles and objects and the dispatcher as they
\* were.
C21_NoFrameIsNoOp ==
    [][(rpc = "poll" /\ streaming /\ tick'.result = "noframe") =>
          /\ tick'.rendered = "none"
          /\ ~tick'.submitted
          /\ ~crashed'
          /\ rpc' = "idle"
          /\ UNCHANGED <<sessVars, gfxVars, threadVars>>]_vars

\* C21: a streaming tick ended on "no frame ready" with the stream textures
\* live and the dispatcher running: nothing was rendered or reported and the
\* session is still streaming.
C21_Witness ==
    /\ tick.result = "noframe"
    /\ tick.rendered = "none"
    /\ ~tick.submitted
    /\ rpc = "idle"
    /\ streaming
    /\ tpc \in {"loop", "body", "sleep"}
    /\ \A n \in {streamTextures[1], streamTextures[2]} :
          n # 0 /\ glTextures[n].live /\ glTextures[n].use = "stream"
    /\ ~crashed

(***************************************************************************)
(* C22: the orientation of a successfully fused pose is the quaternion     *)
(* inverse of the head tracker's prediction for the requested timestamp,   *)
(* unless camera tracking is enabled and useARCoreOrientation is set: then *)
(* it is the camera's orientation and the head tracker is not queried in   *)
(* that call.                                                              *)
(***************************************************************************)
C22_OrientationSource ==
    call.outcome = "ok" =>
        IF call.camera /\ useARCoreOrientation
            THEN /\ call.pose.orientation = call.in.arQ
                 /\ ~call.headQueried
            ELSE /\ call.pose.orientation = inverseQuat(call.in.hq)
                 /\ call.headQueried

\* A fused pose whose orientation came from the camera, in a call where the
\* head tracker's prediction would have given another orientation.
C22_Witness ==
    /\ call.outcome = "ok"
    /\ call.camera
    /\ useARCoreOrientation
    /\ ~call.headQueried
    /\ call.pose.orientation = call.in.arQ
    /\ call.in.arQ # inverseQuat(call.in.hq)
    /\ lastOrientation = call.in.arQ

(***************************************************************************)
(* C23: the dispatcher's own offscreen graphics context is released when   *)
(* its thread stops: whenever no dispatcher thread is running (none was    *)
(* started, or the last one has returned), no context or surface that a    *)
(* dispatcher thread created is still unreleased.  inputThread creates the *)
(* pbuffer surface and the context (lines 320-341) and returns at line 355 *)
(* without eglDestroyContext, eglDestroySurface or eglTerminate, so        *)
(* threadEgl stays set after the thread is gone.                           *)
(***************************************************************************)
C23_ContextReleasedAtThreadStop ==
    tpc \in {"none", "exited"} => ~threadEgl

\* A stream was started and stopped with camera tracking enabled, the thread
\* has been joined, and its context is still there.
C23_Witness ==
    /\ arcoreEnabled
    /\ tpc = "none"
    /\ ~streaming
    /\ rpc = "poll"
    /\ lastEvent.tag = "STREAMING_STOPPED"
    /\ lastEvent.result = "handled"
    /\ threadEgl

(***************************************************************************)
(* C24: a camera-tracking failure affects only the call in which it        *)
(* occurs.  In the getPose call that follows a failed one (camera tracking *)
(* active, a graphics context current) the camera is consulted again: the  *)
(* call falls back exactly when this call's session advance fails or the   *)
(* camera is not tracking, and otherwise it returns the fresh camera       *)
(* position (its height replaced by the barometric height when             *)
(* useBarometerAltitudeTracking is set) and stores the fresh camera        *)
(* translation in the last-position cache.                                 *)
(***************************************************************************)
C24_FailureAffectsOnlyItsCall ==
    (call.outcome # "none" /\ call.after = "fallback"
        /\ call.camera /\ call.in.egl) =>
        /\ call.outcome = "ok" <=>
              (call.in.arRet = "AR_SUCCESS" /\ call.in.tracking = "TRACKING")
        /\ call.outcome # "ok" => call.outcome = "fallback"
        /\ call.outcome = "ok" =>
              /\ call.pose.position =
                    IF useBarometerAltitudeTracking
                        THEN <<call.in.arT[1],
                               pressureToAltitude(SEA_LEVEL_PRESSURE,
                                                  call.pre.currentPressure)
                                   - call.pre.floorAltitude,
                               call.in.arT[3]>>
                        ELSE call.in.arT
              /\ lastPosition = call.in.arT

\* The first successful call after a failed one, with the camera somewhere
\* else than the cached position: the returned position and the cache are the
\* fresh ones.
C24_Witness ==
    /\ call.outcome = "ok"
    /\ call.after = "fallback"
    /\ call.camera
    /\ call.pre.lastPosition # ZeroVec
    /\ call.in.arT # call.pre.lastPosition
    /\ call.pose.position[1] = call.in.arT[1]
    /\ call.pose.position[1] # call.pre.lastPosition[1]
    /\ lastPosition = call.in.arT

(***************************************************************************)
(* C25: the render tick and the dispatcher thread are never inside getPose *)
(* at the same time.  A dispatcher thread exists only between a stream     *)
(* start and the join on stream stop (streaming is set, or the render tick *)
(* is blocked in the join); the render tick reaches its getPose call only  *)
(* when the session is not streaming, so never while a thread exists; and  *)
(* a tick that drew the lobby, which is the tick that called getPose, ran  *)
(* with no dispatcher thread in existence.                                 *)
(***************************************************************************)
C25_GetPoseCallersExclusive ==
    /\ tpc # "none" => (streaming \/ rpc = "join")
    /\ ~(rpc = "poll" /\ ~streaming /\ tpc # "none")
    /\ tick.result = "lobby" => (~streaming /\ tpc = "none")

\* The dispatcher is about to call getPose while a render tick is under way:
\* the session is streaming, so the tick takes the stream branch; an earlier
\* getPose call has left its orientation in the cache.
C25_Witness ==
    /\ tpc = "body"
    /\ rpc = "poll"
    /\ streaming
    /\ ~crashed
    /\ lastOrientation # ZeroQuat

(***************************************************************************)
(* C26: who writes the texture handles, the dirty flags and the streaming  *)
(* flag.  A step of the dispatcher thread is a step that moves the thread  *)
(* on; a step of the render tick is a step that moves renderNative on.     *)
(***************************************************************************)
DispatcherStep == tpc \in {"start", "loop", "body", "sleep"} /\ tpc' # tpc

RenderTickStep == <<rpc, tick, lastEvent>>' # <<rpc, tick, lastEvent>>

\* C26 as stated: the lobby and stream texture handles, the dirty flags and
\* the streaming flag are written only by steps of the render tick.  The
\* lifecycle handlers set the dirty flags outside the render tick
\* (resumeNative line 473, surfaceCreatedNative line 503,
\* setScreenResolutionNative line 511, setScreenRotationNative line 517).
C26_WrittenOnlyByRenderTick ==
    [][(<<lobbyTextures, streamTextures, renderingParamsChanged,
          glContextRecreated, streaming>>' #
        <<lobbyTextures, streamTextures, renderingParamsChanged,
          glContextRecreated, streaming>>) => RenderTickStep]_vars

\* C26 amended: the texture handles and the streaming flag are written only
\* by steps of the render tick, which is also the only one to clear a dirty
\* flag; a dirty flag is set only by a lifecycle handler of the host, outside
\* the render tick's steps; no step of the dispatcher thread allocates,
\* releases or modifies a texture, a texture handle, a dirty flag or the
\* streaming flag.
C26_DispatcherWritesNoneOfThem ==
    [][/\ DispatcherStep =>
             UNCHANGED <<lobbyTextures, streamTextures, glTextures,
                         renderingParamsChanged, glContextRecreated,
                         streaming>>
       /\ (<<lobbyTextures, streamTextures, streaming>>' #
              <<lobbyTextures, streamTextures, streaming>>) => RenderTickStep
       /\ ((renderingParamsChanged /\ ~renderingParamsChanged')
             \/ (glContextRecreated /\ ~glContextRecreated')) => RenderTickStep
       /\ ((~renderingParamsChanged /\ renderingParamsChanged')
             \/ (~glContextRecreated /\ glContextRecreated')) =>
                (~RenderTickStep /\ ~DispatcherStep)]_vars

\* The dispatcher has run an iteration during a stream whose textures and
\* lobby textures are allocated, and the geometry has been marked dirty in
\* the middle of a render tick, after the tick cleared the flag.
C26_Witness ==
    /\ tpc = "sleep"
    /\ iter >= 1
    /\ streaming
    /\ StreamTextureAllocated
    /\ LiveLobbyTextures # {}
    /\ rpc = "poll"
    /\ renderingParamsChanged
    /\ ~crashed

(***************************************************************************)
(* C27: Streaming is never entered directly from Idle.  A deferred tick    *)
(* (geometry dirty, no calibration) ends without polling: it reaches no    *)
(* event and allocates nothing.  As long as no tick has completed the      *)
(* lobby texture allocation (the lobby handles are still zero) the         *)
(* geometry is dirty, no render tick is in its event loop, no event has    *)
(* been acted on, the session is not streaming, no stream texture has been *)
(* allocated and no dispatcher thread exists: every stream start happens   *)
(* in or after a tick that allocated the lobby textures.                   *)
(***************************************************************************)
C27_StreamingOnlyAfterLobbyAllocation ==
    /\ tick.result = "deferred" =>
          /\ rpc = "idle"
          /\ lastEvent = NoEvent
          /\ tick.lobbyAllocs = 0
    /\ lobbyTextures = <<0, 0>> =>
          /\ renderingParamsChanged
          /\ rpc = "idle"
          /\ lastEvent = NoEvent
          /\ ~streaming
          /\ streamTextures = <<0, 0>>
          /\ ~StreamTextureAllocated
          /\ tpc = "none"

\* Streaming was entered in the tick that completed the first lobby texture
\* allocation: that tick found the geometry dirty, had the calibration,
\* allocated the lobby pair and then handled the stream start.
C27_Witness ==
    /\ rpc = "poll"
    /\ tick.dirty
    /\ tick.calibrated
    /\ tick.lobbyAllocs = 1
    /\ tick.lobbyReleases = 0
    /\ LiveLobbyTextures = {lobbyTextures[1], lobbyTextures[2]}
    /\ lastEvent.tag = "STREAMING_STARTED"
    /\ lastEvent.result = "handled"
    /\ streaming
    /\ tpc = "start"
    /\ ~crashed

====
